---------------------------- MODULE Spec2Model ----------------------------
(***************************************************************************)
(* SPARQL loaders of rawgraphs-app: fetchData / convertSparqlJsonToObjects *)
(* (SparqlFetch.js), the dataset-selection pipeline and the search session *)
(* of CatalogueSearch.js, and the search session of TerminologyService.js. *)
(*                                                                         *)
(* JavaScript values are modelled as follows.                              *)
(*   string      [type |-> "string", value |-> "..."]   (row field values) *)
(*   undefined   [type |-> "undefined"]                                    *)
(*   object      a function from property names to values                  *)
(*   array       a sequence; an array carrying the Symbol-keyed property   *)
(*               SparqlMarker is [rows |-> <<...>>, SparqlMarker |-> b]    *)
(*   Error       its message, a sequence of string pieces (the pieces of   *)
(*               the template literal that builds it)                      *)
(***************************************************************************)
EXTENDS Integers, Sequences, FiniteSets, Bags, TLC

VARIABLES
    \* ---- the component and its React state (CatalogueSearch.js:11-19,
    \*      TerminologyService.js:24-30)
    component,       \* which of the two loaders this session is
    phase,           \* "rendered" (before effects), "mounted", "unmounted"
    isMountedRef,    \* isMountedRef.current
    searchTerm,
    sparqlEndpoint,
    searchResults,
    isLoading,
    error,
    initialLoadDone,
    initialLoads,    \* how many times the effect has called executeSearch
    \* ---- state of the hosting context, written through the props
    loadingError,    \* last argument of setLoadingError
    userInput,       \* last arguments of setUserInput
    \* ---- lodash debounce(func, 500) closure
    timerId,         \* TRUE while a timeout is pending
    lastArgs,        \* arguments of the last debounced call
    sinceLastCall,   \* ms since the last debounced call (capped)
    replaced,        \* the last debounced call replaced pending arguments
                     \* that held another term
    \* ---- asynchronous runs awaiting a response
    runs,            \* the bag of the invocations of executeSearch and
                     \* handleDatasetSelect that await a response
    resultsFrom,     \* whether the invocation that last wrote searchResults was
                     \* then the latest one ("latest") or not ("superseded")
    sinceChange,     \* ms since the last change of the search term (capped)
    \* ---- evaluation of the data path on one response
    stage,           \* "request", "normalized", "resolved", "pivoted", "failed"
                     \* ("repivoted": the pivot applied to its own output)
    response,        \* the HTTP response under evaluation
    settled,         \* outcome of fetchData(response)
    resolvedTriples, \* resultsWithResolvedIris
    pivotedResults,  \* pivotTripleResults(resultsWithResolvedIris)
    lookups,         \* the calls of fetchWikidataLabels that reached fetch(url),
                     \* each as its batch `iris`
    wikidataAnswer,  \* what the Wikidata API answered to the lookup
    \* ---- the SparqlFetch component (SparqlFetch.js:139-235)
    url,             \* the endpoint input
    parsedQuery,     \* the query last accepted from the editor, or null
    submitted        \* the bag of the calls of fetchData made by onSubmit that
                     \* await their response, each as its `source`

\* what executeSearch writes
searchVars == <<searchResults, isLoading, error, loadingError, runs, resultsFrom>>
\* what the debounced function writes
debounceVars == <<timerId, lastArgs, sinceLastCall, replaced>>
\* the rest of the session
sessionVars == <<component, phase, isMountedRef, searchTerm, sparqlEndpoint,
                 initialLoadDone, initialLoads, sinceChange>>
ctlVars == <<sessionVars, searchVars, debounceVars, userInput>>
dataVars == <<stage, response, settled, resolvedTriples, pivotedResults,
              lookups, wikidataAnswer>>
\* the state of SparqlFetch
editorVars == <<url, parsedQuery, submitted>>
vars == <<ctlVars, dataVars, editorVars>>

-----------------------------------------------------------------------------
(* Bounds of the model *)

MaxVars == 2        \* declared variables in a WireResult
MaxBindings == 2    \* bindings in a WireResult
MaxTriples == 3     \* bindings answered to the predefined triple query
MaxInFlight == 2    \* runs awaiting a response at the same time

-----------------------------------------------------------------------------
(* JavaScript values *)

Str(x) == [type |-> "string", value |-> x]
Undefined == [type |-> "undefined"]
Null == <<>>   \* null where a message (a sequence of pieces) is expected

\* ToBoolean of a row field value
Truthy(v) == v.type = "object" \/ (v.type = "string" /\ v.value # "")

\* obj[k]: an absent property reads as undefined
Get(obj, k) == IF k \in DOMAIN obj THEN obj[k] ELSE Undefined

Range(s) == {s[i] : i \in DOMAIN s}

SeqsUpTo(S, n) == UNION {[1..k -> S] : k \in 0..n}


-----------------------------------------------------------------------------
(* SparqlFetch.js: convertSparqlJsonToObjects and fetchData *)

\* JSON null, as a parsed response body
JsonNull == [null |-> TRUE]

\* An exception thrown / a promise rejected with an Error carrying `message`
Threw(message) == [threw |-> TRUE, message |-> message]
Returned(value) == [threw |-> FALSE, value |-> value]

\* A row built from the keys of the binding instead of the declared variables
BindingToRow_BindingKeys(varNames, binding) ==
    [variable \in DOMAIN binding |-> Str(binding[variable].value)]

\* One row of convertSparqlJsonToObjects: for each declared variable the bound
\* term's value, '' when binding[variable] is falsy (unbound).
BindingToRow(varNames, binding) ==
    [variable \in Range(varNames) |->
        IF variable \in DOMAIN binding
            THEN Str(binding[variable].value)
            ELSE Str("")]

convertSparqlJsonToObjects(sparqlJson) ==
    IF \/ sparqlJson = JsonNull
       \/ "head" \notin DOMAIN sparqlJson
       \/ "results" \notin DOMAIN sparqlJson
       \/ "bindings" \notin DOMAIN sparqlJson.results
    THEN Returned(<<>>)                  \* console.error(...); return []
    ELSE LET head == sparqlJson.head
             bindings == sparqlJson.results.bindings
         IN  IF "vars" \notin DOMAIN head
             THEN \* varNames is undefined: `for (... of varNames)` throws a
                  \* TypeError as soon as there is a binding to convert
                  IF Len(bindings) = 0
                      THEN Returned(<<>>)
                      ELSE Threw(<<"varNames is not iterable">>)
             ELSE Returned([i \in 1..Len(bindings) |->
                               BindingToRow(head.vars, bindings[i])])

\* Wrong: a result with no rows is returned without the marker.
fetchData_TagNonEmptyOnly(resp) ==
    IF resp.kind = "network_error" THEN Threw(<<"Failed to fetch">>)
    ELSE IF ~resp.ok THEN
        Threw(<<"SPARQL query failed with status ", resp.status, ": ", resp.text>>)
    ELSE IF "json" \notin DOMAIN resp THEN Threw(<<"Unexpected token in JSON">>)
    ELSE LET r == convertSparqlJsonToObjects(resp.json)
         IN  IF r.threw THEN r
             ELSE Returned([rows |-> r.value, SparqlMarker |-> Len(r.value) > 0])

\* fetchData(source), as a function of the HTTP response the endpoint gives.
\* `rows` is an array, hence truthy also when empty: the marker is set by the
\* first branch of `if (rows)` in every case.
fetchData(resp) ==
    IF resp.kind = "network_error" THEN Threw(<<"Failed to fetch">>)
    ELSE IF ~resp.ok THEN
        Threw(<<"SPARQL query failed with status ", resp.status, ": ", resp.text>>)
    ELSE IF "json" \notin DOMAIN resp THEN Threw(<<"Unexpected token in JSON">>)
    ELSE LET r == convertSparqlJsonToObjects(resp.json)
         IN  IF r.threw THEN r
             ELSE Returned([rows |-> r.value, SparqlMarker |-> TRUE])

\* HTTP responses
NetworkError == [kind |-> "network_error"]
HttpError(status, text) == [kind |-> "http", ok |-> FALSE, status |-> status, text |-> text]
HttpText(text) == [kind |-> "http", ok |-> TRUE, status |-> "200", text |-> text]
HttpJson(json) == [kind |-> "http", ok |-> TRUE, status |-> "200", json |-> json]

WireResult(varNames, bindings) ==
    [head |-> [vars |-> varNames], results |-> [bindings |-> bindings]]

Term(value) == [type |-> "literal", value |-> value]

-----------------------------------------------------------------------------
(* CatalogueSearch.js: resolveWikidataIrisInRawResults, fetchWikidataLabels *)

\* The strings of the model that start with one of the four Wikidata prefixes
\* (http/https, /entity/Q or /wiki/Q), each with the text after its last '/'.
WikidataIds ==
    ("http://www.wikidata.org/entity/Q1" :> "Q1") @@
    ("https://www.wikidata.org/wiki/Q1" :> "Q1")

\* objectValue.startsWith(<one of the four prefixes>)
StartsWithWikidataPrefix(value) == value \in DOMAIN WikidataIds

\* iri.substring(iri.lastIndexOf('/') + 1)
AfterLastSlash(iri) == WikidataIds[iri]

\* Wrong: an array instead of a Set, duplicates kept
SetAdd_KeepsDuplicates(seq, x) == Append(seq, x)

\* Appending to a JavaScript Set: insertion order, no duplicates
SetAdd(seq, x) == IF x \in Range(seq) THEN seq ELSE Append(seq, x)

\* wikidataIrisToResolve, as the array [...wikidataIrisToResolve]
RECURSIVE wikidataIrisToResolve(_)
wikidataIrisToResolve(triples) ==
    IF Len(triples) = 0 THEN <<>>
    ELSE LET before == wikidataIrisToResolve(SubSeq(triples, 1, Len(triples) - 1))
             objectValue == Get(triples[Len(triples)], "entity_name")
         IN  IF objectValue.type = "string" /\ StartsWithWikidataPrefix(objectValue.value)
                 THEN SetAdd(before, objectValue.value)
                 ELSE before

\* iris.find(iri => iri.endsWith('/' + id)): the first such IRI of the batch,
\* as a set of at most one element
FindIri(iris, id) ==
    LET hits == {i \in DOMAIN iris : AfterLastSlash(iris[i]) = id}
    IN  IF hits = {} THEN {}
        ELSE {iris[CHOOSE i \in hits : \A j \in hits : i <= j]}

\* The loop over data.entities: `entities` is the sequence of the entities
\* of the answer in key order, each [id |-> ..., label |-> ...], label ""
\* when the entity has no English label.
RECURSIVE LabelsOf(_, _)
LabelsOf(iris, entities) ==
    IF Len(entities) = 0 THEN <<>>
    ELSE LET labels == LabelsOf(iris, SubSeq(entities, 1, Len(entities) - 1))
             entity == entities[Len(entities)]
             originalIri == FindIri(iris, entity.id)
         IN  IF entity.label # "" /\ originalIri # {}
                 THEN [iri \in DOMAIN labels \cup originalIri |->
                          IF iri \in originalIri THEN entity.label ELSE labels[iri]]
                 ELSE labels

\* The lookup has failed entirely: fetch rejects, the status is not 2xx, or
\* the body is not JSON
LookupFailed(answer) ==
    \/ answer.kind = "network_error"
    \/ answer.kind = "http" /\ (~answer.ok \/ "json" \notin DOMAIN answer)

\* Wrong: when the lookup fails every IRI is given itself as its label.
fetchWikidataLabels_LabelsIriOnFailure(iris, answer) ==
    IF Len(iris) = 0 THEN <<>>
    ELSE IF LookupFailed(answer) THEN [iri \in Range(iris) |-> iri]
    ELSE IF "entities" \notin DOMAIN answer.json THEN <<>>
    ELSE LabelsOf(iris, answer.json.entities)

\* fetchWikidataLabels(iris), as a function of the answer of the Wikidata API
fetchWikidataLabels(iris, answer) ==
    IF Len(iris) = 0 THEN <<>>
    ELSE IF answer.kind = "network_error" THEN <<>>   \* caught, labels returned
    ELSE IF ~answer.ok THEN <<>>
    ELSE IF "json" \notin DOMAIN answer THEN <<>>     \* response.json() throws, caught
    ELSE IF "entities" \notin DOMAIN answer.json THEN <<>>
    ELSE LabelsOf(iris, answer.json.entities)

ResolvedIri(iri, label) ==
    [type |-> "object", iri |-> iri, label |-> label, __resolved_iri__ |-> TRUE]

\* Wrong: the value is replaced by the label alone.
ResolveWith_LabelOnly(triples, labelsMap) ==
    [rows |-> [i \in 1..Len(triples.rows) |->
                  LET triple == triples.rows[i]
                      objectValue == Get(triple, "entity_name")
                  IN  IF objectValue.type = "string" /\ objectValue.value \in DOMAIN labelsMap
                          THEN [k \in DOMAIN triple \cup {"entity_name"} |->
                                   IF k = "entity_name"
                                       THEN Str(labelsMap[objectValue.value])
                                       ELSE triple[k]]
                          ELSE triple],
     SparqlMarker |-> triples.SparqlMarker]

\* triples.map(...) with the marker propagated
ResolveWith(triples, labelsMap) ==
    [rows |-> [i \in 1..Len(triples.rows) |->
                  LET triple == triples.rows[i]
                      objectValue == Get(triple, "entity_name")
                  IN  IF objectValue.type = "string" /\ objectValue.value \in DOMAIN labelsMap
                          THEN [k \in DOMAIN triple \cup {"entity_name"} |->
                                   IF k = "entity_name"
                                       THEN ResolvedIri(objectValue.value,
                                                        labelsMap[objectValue.value])
                                       ELSE triple[k]]
                          ELSE triple],
     SparqlMarker |-> triples.SparqlMarker]

\* Wrong: with nothing to resolve a copy is returned, without the marker.
resolveWikidataIrisInRawResults_CopiesUntagged(triples, answer) ==
    IF Len(triples.rows) = 0 THEN triples
    ELSE IF Len(wikidataIrisToResolve(triples.rows)) = 0
        THEN [rows |-> triples.rows, SparqlMarker |-> FALSE]
    ELSE ResolveWith(triples,
                     fetchWikidataLabels(wikidataIrisToResolve(triples.rows), answer))

\* Wrong: the marker is set on the mapped array whatever the input carries.
resolveWikidataIrisInRawResults_AlwaysTags(triples, answer) ==
    IF Len(triples.rows) = 0 THEN triples
    ELSE IF Len(wikidataIrisToResolve(triples.rows)) = 0 THEN triples
    ELSE [ResolveWith(triples,
                      fetchWikidataLabels(wikidataIrisToResolve(triples.rows), answer))
             EXCEPT !.SparqlMarker = TRUE]

\* resolveWikidataIrisInRawResults(triples), as a function of the answer the
\* Wikidata API would give to its one lookup
resolveWikidataIrisInRawResults(triples, answer) ==
    IF Len(triples.rows) = 0 THEN triples
    ELSE IF Len(wikidataIrisToResolve(triples.rows)) = 0 THEN triples
    ELSE ResolveWith(triples,
                     fetchWikidataLabels(wikidataIrisToResolve(triples.rows), answer))

\* The batches of the lookups resolveWikidataIrisInRawResults(triples) makes:
\* none on either early return, else the one call
\* fetchWikidataLabels([...wikidataIrisToResolve])
WikidataLookups(triples) ==
    IF Len(triples.rows) = 0 THEN <<>>
    ELSE IF Len(wikidataIrisToResolve(triples.rows)) = 0 THEN <<>>
    ELSE <<wikidataIrisToResolve(triples.rows)>>

-----------------------------------------------------------------------------
(* CatalogueSearch.js: pivotTripleResults *)

\* A plain object as its own keys in insertion order with their values
EmptyObject == [keys |-> <<>>, vals |-> <<>>]

IndexOfKey(obj, k) == CHOOSE i \in DOMAIN obj.keys : obj.keys[i] = k

HasKey(obj, k) == k \in Range(obj.keys)

\* The canonical numeric strings of the model ("array index" property keys)
Digits == <<"0", "1", "2", "3", "4", "5", "6", "7", "8", "9">>

IsArrayIndex(k) == k \in Range(Digits)

ArrayIndex(k) == (CHOOSE i \in DOMAIN Digits : Digits[i] = k) - 1

\* OrdinaryOwnPropertyKeys: array indices in ascending numeric order, then
\* the other string keys in insertion order
RECURSIVE Ascending(_)
Ascending(ks) ==
    IF ks = {} THEN <<>>
    ELSE LET least == CHOOSE k \in ks : \A other \in ks : ArrayIndex(k) <= ArrayIndex(other)
         IN  <<least>> \o Ascending(ks \ {least})

OwnKeys(obj) ==
    Ascending({k \in Range(obj.keys) : IsArrayIndex(k)})
        \o SelectSeq(obj.keys, LAMBDA k : ~IsArrayIndex(k))

\* Object.values(obj)
ObjectValues(obj) ==
    LET ks == OwnKeys(obj)
    IN  [i \in 1..Len(ks) |-> obj.vals[IndexOfKey(obj, ks[i])]]

\* row[k] = v
SetField(row, k, v) == [f \in DOMAIN row \cup {k} |-> IF f = k THEN v ELSE row[f]]

\* Wrong: the accumulator row is seeded under the key `subject`.
ReduceStep_SeedsSubjectKey(acc, triple) ==
    LET subjectVal == Get(triple, "s")
        predicateVal == Get(triple, "column_name")
        objectVal == Get(triple, "entity_name")
    IN  IF ~Truthy(subjectVal) \/ ~Truthy(predicateVal) THEN acc
        ELSE LET seeded == IF HasKey(acc, subjectVal.value) THEN acc
                           ELSE [keys |-> Append(acc.keys, subjectVal.value),
                                 vals |-> Append(acc.vals, [subject |-> subjectVal])]
                 at == IndexOfKey(seeded, subjectVal.value)
             IN  [seeded EXCEPT !.vals[at] = SetField(@, predicateVal.value, objectVal)]

\* Wrong: the first value written for a (subject, column) pair is kept.
ReduceStep_FirstWriteWins(acc, triple) ==
    LET subjectVal == Get(triple, "s")
        predicateVal == Get(triple, "column_name")
        objectVal == Get(triple, "entity_name")
    IN  IF ~Truthy(subjectVal) \/ ~Truthy(predicateVal) THEN acc
        ELSE LET seeded == IF HasKey(acc, subjectVal.value) THEN acc
                           ELSE [keys |-> Append(acc.keys, subjectVal.value),
                                 vals |-> Append(acc.vals, [s |-> subjectVal])]
                 at == IndexOfKey(seeded, subjectVal.value)
             IN  IF predicateVal.value \in DOMAIN seeded.vals[at] THEN seeded
                 ELSE [seeded EXCEPT !.vals[at] = SetField(@, predicateVal.value, objectVal)]

\* Wrong: a triple with an empty column name is not skipped.
ReduceStep_KeepsMalformed(acc, triple) ==
    LET subjectVal == Get(triple, "s")
        predicateVal == Get(triple, "column_name")
        objectVal == Get(triple, "entity_name")
    IN  IF ~Truthy(subjectVal) THEN acc
        ELSE LET seeded == IF HasKey(acc, subjectVal.value) THEN acc
                           ELSE [keys |-> Append(acc.keys, subjectVal.value),
                                 vals |-> Append(acc.vals, [s |-> subjectVal])]
                 at == IndexOfKey(seeded, subjectVal.value)
             IN  IF predicateVal.type # "string" THEN seeded
                 ELSE [seeded EXCEPT !.vals[at] = SetField(@, predicateVal.value, objectVal)]

\* The reducer of pivotTripleResults: (acc, triple) => acc
ReduceStep(acc, triple) ==
    LET subjectVal == Get(triple, "s")
        predicateVal == Get(triple, "column_name")
        objectVal == Get(triple, "entity_name")
    IN  IF ~Truthy(subjectVal) \/ ~Truthy(predicateVal) THEN acc
        ELSE LET seeded == IF HasKey(acc, subjectVal.value) THEN acc
                           ELSE [keys |-> Append(acc.keys, subjectVal.value),
                                 vals |-> Append(acc.vals, [s |-> subjectVal])]
                 at == IndexOfKey(seeded, subjectVal.value)
             IN  [seeded EXCEPT !.vals[at] = SetField(@, predicateVal.value, objectVal)]

\* triples.reduce(ReduceStep, {})
RECURSIVE groupedBySubject(_)
groupedBySubject(rows) ==
    IF Len(rows) = 0 THEN EmptyObject
    ELSE ReduceStep(groupedBySubject(SubSeq(rows, 1, Len(rows) - 1)), rows[Len(rows)])

\* Wrong: when no triple can be placed the input is handed back as it is.
pivotTripleResults_KeepsUnplaceable(triples, rawResults) ==
    IF Len(triples.rows) = 0
        THEN [rows |-> <<>>, SparqlMarker |-> FALSE]
    ELSE IF groupedBySubject(triples.rows) = EmptyObject
        THEN triples
        ELSE [rows |-> ObjectValues(groupedBySubject(triples.rows)),
              SparqlMarker |-> rawResults.SparqlMarker]

\* pivotTripleResults(triples); rawResults is the variable of the enclosing
\* handleDatasetSelect that the closure reads the marker from.
pivotTripleResults(triples, rawResults) ==
    IF Len(triples.rows) = 0
        THEN [rows |-> <<>>, SparqlMarker |-> FALSE]      \* return []
        ELSE [rows |-> ObjectValues(groupedBySubject(triples.rows)),
              SparqlMarker |-> rawResults.SparqlMarker]

-----------------------------------------------------------------------------
(* The responses the model draws from *)

VarNames == {"a", "b"}
BindingKeys == VarNames \cup {"z"}      \* "z" is never a declared variable
TermValues == {"x", "y"}

BindingsOver(keys, values) ==
    UNION {[bound -> {Term(v) : v \in values}] : bound \in SUBSET keys}

\* Success responses whose JSON lacks head, results, results.bindings or
\* head.vars
MisshapenJson ==
    { JsonNull,
      [results |-> [bindings |-> <<>>]],
      [head |-> [vars |-> <<"a">>]],
      [head |-> [vars |-> <<"a">>], results |-> [boolean |-> TRUE]],
      [head |-> [link |-> <<>>], results |-> [bindings |-> <<>>]],
      [head |-> [link |-> <<>>], results |-> [bindings |-> <<[a |-> Term("x")]>>]] }

FailedResponses ==
    {NetworkError, HttpError("500", "boom"), HttpText("<html>")}

WellFormed(resp) ==
    /\ resp.kind = "http" /\ resp.ok /\ "json" \in DOMAIN resp
    /\ resp.json # JsonNull
    /\ "head" \in DOMAIN resp.json /\ "vars" \in DOMAIN resp.json.head
    /\ "results" \in DOMAIN resp.json /\ "bindings" \in DOMAIN resp.json.results

FetchResponses ==
    FailedResponses
    \cup {HttpJson(j) : j \in MisshapenJson}
    \cup {HttpJson(WireResult(vs, bs)) :
            vs \in SeqsUpTo(VarNames, MaxVars),
            bs \in SeqsUpTo(BindingsOver(BindingKeys, TermValues), MaxBindings)}

\* Answers to the predefined query SELECT ?s ?column_name ?entity_name
TripleVars == <<"s", "column_name", "entity_name">>
Subjects == {"u1", "7"}
ColumnNames == {"name", "age"}
EntityNames == {"x", "http://www.wikidata.org/entity/Q1"}

TripleBindings ==
    {[k \in ks \cup {"entity_name"} |->
        Term(IF k = "s" THEN s ELSE IF k = "column_name" THEN c ELSE e)] :
        ks \in SUBSET {"s", "column_name"},
        s \in Subjects, c \in ColumnNames, e \in EntityNames}

\* The two bindings (u1, name, Alice), (u1, age, 30)
EndToEndScenario ==
    HttpJson(WireResult(TripleVars,
        <<[s |-> Term("u1"), column_name |-> Term("name"), entity_name |-> Term("Alice")],
          [s |-> Term("u1"), column_name |-> Term("age"), entity_name |-> Term("30")]>>))

TripleResponses ==
    {HttpError("500", "boom"), EndToEndScenario}
    \cup {HttpJson(WireResult(TripleVars, bs)) :
            bs \in SeqsUpTo(TripleBindings, MaxTriples)}

\* Triples for resolveWikidataIrisInRawResults: the value is a plain string,
\* one of two IRIs of the same Wikidata entity, or unbound
EnrichEntityNames ==
    {"x", "http://www.wikidata.org/entity/Q1", "https://www.wikidata.org/wiki/Q1"}

EnrichBindings ==
    {[s |-> Term("u1"), column_name |-> Term("name"), entity_name |-> Term(e)] :
        e \in EnrichEntityNames}
    \cup {[s |-> Term("u1"), column_name |-> Term("name")]}

EnrichResponses ==
    {HttpJson(WireResult(TripleVars, bs)) : bs \in SeqsUpTo(EnrichBindings, MaxTriples)}

\* Answers of the Wikidata API to the label lookup
WikidataAnswers ==
    { NetworkError,
      HttpError("500", "boom"),
      HttpText("<html>"),
      HttpJson([entities |-> <<[id |-> "Q1", label |-> "Universe"]>>]),
      HttpJson([entities |-> <<[id |-> "Q1", label |-> ""]>>]) }

-----------------------------------------------------------------------------
(* The data path evaluated on one response: fetchData, then the steps of   *)
(* handleDatasetSelect (CatalogueSearch.js:199-275)                        *)

NoUserInput == [type |-> "none"]

\* setUserInput(pivotedResults, {type: 'sparql', endpoint, fromCatalogueClick, ...})
CatalogueInput(data, endpoint) ==
    [type |-> "sparql", data |-> data, endpoint |-> endpoint,
     fromCatalogueClick |-> TRUE]

NoRowSet == [rows |-> <<>>, SparqlMarker |-> FALSE]
NoAnswer == [kind |-> "none"]
Pending == [threw |-> FALSE, pending |-> TRUE]

\* const rawResults = await fetchData(source)
Normalize ==
    /\ stage = "request"
    /\ settled' = fetchData(response)
    /\ stage' = IF settled'.threw THEN "failed" ELSE "normalized"
    /\ UNCHANGED <<response, resolvedTriples, pivotedResults, lookups,
                   wikidataAnswer, ctlVars, editorVars>>

\* const resultsWithResolvedIris = await resolveWikidataIrisInRawResults(rawResults)
Resolve ==
    /\ stage = "normalized"
    /\ lookups' = lookups \o WikidataLookups(settled.value)
    /\ \E answer \in WikidataAnswers :
           /\ resolvedTriples' = resolveWikidataIrisInRawResults(settled.value, answer)
           /\ wikidataAnswer' = IF lookups' = lookups THEN NoAnswer ELSE answer
    /\ stage' = "resolved"
    /\ UNCHANGED <<response, settled, pivotedResults, ctlVars, editorVars>>

\* Wrong: the pivot is given rawResults, not the rows with resolved IRIs.
Pivot_OfRawResults ==
    /\ stage = "resolved"
    /\ pivotedResults' = pivotTripleResults(settled.value, settled.value)
    /\ userInput' = CatalogueInput(pivotedResults', sparqlEndpoint)
    /\ stage' = "pivoted"
    /\ UNCHANGED <<response, settled, resolvedTriples, lookups, wikidataAnswer,
                   sessionVars, searchVars, debounceVars, editorVars>>

\* const pivotedResults = pivotTripleResults(resultsWithResolvedIris);
\* setUserInput(pivotedResults, {...})
Pivot ==
    /\ stage = "resolved"
    /\ pivotedResults' = pivotTripleResults(resolvedTriples, settled.value)
    /\ userInput' = CatalogueInput(pivotedResults', sparqlEndpoint)
    /\ stage' = "pivoted"
    /\ UNCHANGED <<response, settled, resolvedTriples, lookups, wikidataAnswer,
                   sessionVars, searchVars, debounceVars, editorVars>>

\* pivotTripleResults applied once more, to its own output
PivotAgain ==
    /\ stage = "pivoted"
    /\ pivotedResults' = pivotTripleResults(pivotedResults, settled.value)
    /\ stage' = "repivoted"
    /\ UNCHANGED <<response, settled, resolvedTriples, lookups, wikidataAnswer,
                   ctlVars, editorVars>>

DefaultEndpoint == "https://fskx-api-gateway-service.risk-ai-cloud.com/gdb-proxy-service/sparql"

NoArgs == [term |-> "", endpoint |-> ""]

\* parsedQuery === null
NullQuery == [type |-> "null", queryType |-> "null", where |-> ""]

\* SparqlFetch as constructed: useState(initialState?.url ?? default),
\* useState(null)
InitEditor(initialUrl) ==
    /\ url = initialUrl
    /\ parsedQuery = NullQuery
    /\ submitted = EmptyBag

\* The component as constructed (useState initial values)
InitSession(c, endpoint) ==
    /\ component = c
    /\ phase = "rendered"
    /\ isMountedRef = TRUE
    /\ searchTerm = ""
    /\ sparqlEndpoint = endpoint
    /\ searchResults = NoRowSet
    /\ isLoading = FALSE
    /\ error = Null
    /\ initialLoadDone = FALSE
    /\ initialLoads = 0
    /\ loadingError = Null
    /\ userInput = NoUserInput
    /\ timerId = FALSE
    /\ lastArgs = NoArgs
    /\ sinceLastCall = 0
    /\ runs = EmptyBag
    /\ resultsFrom = "none"
    /\ sinceChange = 0
    /\ replaced = FALSE

InitData(responses) ==
    /\ stage = "request"
    /\ response \in responses
    /\ settled = Pending
    /\ resolvedTriples = NoRowSet
    /\ pivotedResults = NoRowSet
    /\ lookups = <<>>
    /\ wikidataAnswer = NoAnswer

\* fetchData on every response of the model
FetchInit ==
    /\ InitSession("CatalogueSearch", DefaultEndpoint)
    /\ InitData(FetchResponses)
    /\ InitEditor(DefaultEndpoint)
FetchNext == Normalize
FetchSpec == FetchInit /\ [][FetchNext]_vars

\* The data path of handleDatasetSelect on every answer to the triple query
PivotInit ==
    /\ InitSession("CatalogueSearch", DefaultEndpoint)
    /\ InitData(TripleResponses)
    /\ InitEditor(DefaultEndpoint)
PivotNext == Normalize \/ Resolve \/ Pivot
PivotSpec == PivotInit /\ [][PivotNext]_vars

\* resolveWikidataIrisInRawResults as a function on RowSets, with and without
\* the marker
EnrichInit ==
    /\ InitSession("CatalogueSearch", DefaultEndpoint)
    /\ stage = "normalized"
    /\ response \in EnrichResponses
    /\ \E tagged \in BOOLEAN :
          settled = Returned([fetchData(response).value EXCEPT !.SparqlMarker = tagged])
    /\ resolvedTriples = NoRowSet
    /\ pivotedResults = NoRowSet
    /\ lookups = <<>>
    /\ wikidataAnswer = NoAnswer
    /\ InitEditor(DefaultEndpoint)
EnrichNext == Resolve
EnrichSpec == EnrichInit /\ [][EnrichNext]_vars

\* Answers to the triple query in which a column may be named like the key
\* that holds the subject
ClashColumnNames == {"s", "name"}

ClashBindings ==
    {[s |-> Term(s), column_name |-> Term(c), entity_name |-> Term(e)] :
        s \in Subjects, c \in ClashColumnNames, e \in TermValues}

ClashResponses ==
    {HttpJson(WireResult(TripleVars, bs)) : bs \in SeqsUpTo(ClashBindings, MaxTriples)}

\* The data path of handleDatasetSelect on these answers
ClashInit ==
    /\ InitSession("CatalogueSearch", DefaultEndpoint)
    /\ InitData(ClashResponses)
    /\ InitEditor(DefaultEndpoint)
ClashSpec == ClashInit /\ [][PivotNext]_vars

\* pivotTripleResults as a function on RowSets: applied to every output of
\* the data path
RepivotNext == PivotNext \/ PivotAgain
RepivotSpec == PivotInit /\ [][RepivotNext]_vars

-----------------------------------------------------------------------------
(* Properties of the data path *)

Bindings(resp) == resp.json.results.bindings
DeclaredVars(resp) == resp.json.head.vars

\* A triple that the pivot can place: subject and column name both truthy
Placeable(triple) == Truthy(Get(triple, "s")) /\ Truthy(Get(triple, "column_name"))

PlaceableAt(rows) == {i \in DOMAIN rows : Placeable(rows[i])}

\* The index of the first placeable input row of subject s
FirstSeen(rows, s) ==
    CHOOSE i \in PlaceableAt(rows) :
        /\ rows[i]["s"] = s
        /\ \A j \in PlaceableAt(rows) : rows[j]["s"] = s => i <= j

\* C4: a tagged RowSet stays tagged through the pivot, the empty RowSet
\* included, so what handleDatasetSelect delivers is tagged whenever
\* fetchData's output was.
C4_PivotKeepsTag ==
    (stage = "pivoted" /\ settled.value.SparqlMarker)
        => (pivotedResults.SparqlMarker /\ userInput.data.SparqlMarker)

\* C5: on a well-formed WireResult the rows are in binding order, as many as
\* the bindings, each with exactly the declared variables as keys, holding
\* the bound value or '' when unbound; undeclared binding keys never appear.
C5_NormalizeRows ==
    (stage # "request" /\ WellFormed(response)) =>
        /\ stage = "normalized"
        /\ Len(settled.value.rows) = Len(Bindings(response))
        /\ \A i \in DOMAIN settled.value.rows :
              /\ DOMAIN settled.value.rows[i] = Range(DeclaredVars(response))
              /\ \A v \in Range(DeclaredVars(response)) :
                    settled.value.rows[i][v] =
                        IF v \in DOMAIN Bindings(response)[i]
                            THEN Str(Bindings(response)[i][v].value)
                            ELSE Str("")

C5_Witness ==
    /\ stage = "normalized" /\ WellFormed(response)
    /\ Len(settled.value.rows) = 2
    /\ \E i \in DOMAIN settled.value.rows :
          /\ "z" \in DOMAIN Bindings(response)[i]
          /\ \E v \in DOMAIN settled.value.rows[i] :
                v \notin DOMAIN Bindings(response)[i] /\ settled.value.rows[i][v] = Str("")
    /\ settled.value.rows[1] # settled.value.rows[2]

\* C6: every RowSet a successful fetchData returns carries the marker, a
\* RowSet with zero rows included.
C6_FetchDataTags ==
    stage = "normalized" => settled.value.SparqlMarker = TRUE

C6_Witness ==
    /\ stage = "normalized" /\ WellFormed(response)
    /\ Len(settled.value.rows) = 0
    /\ settled.value.SparqlMarker

\* C7: a success response whose JSON lacks the head / results.bindings
\* structure makes fetchData reject; no RowSet is returned.
C7_MisshapenRejected ==
    ( /\ stage # "request"
      /\ response.kind = "http" /\ response.ok /\ "json" \in DOMAIN response
      /\ ~WellFormed(response) )
        => (stage = "failed" /\ settled.threw)

\* C8: the value of column c in the output row of subject s is the value of
\* the last placeable input row with subject s and column name c.
C8_LastWriteWins ==
    stage = "pivoted" =>
        \A i \in PlaceableAt(resolvedTriples.rows) :
            LET triple == resolvedTriples.rows[i]
                later == {j \in PlaceableAt(resolvedTriples.rows) :
                            /\ j > i
                            /\ resolvedTriples.rows[j]["s"] = triple["s"]
                            /\ resolvedTriples.rows[j]["column_name"] = triple["column_name"]}
                ofSubject == {k \in DOMAIN pivotedResults.rows :
                                pivotedResults.rows[k]["s"] = triple["s"]}
            IN  later = {} =>
                    /\ Cardinality(ofSubject) = 1
                    /\ \A k \in ofSubject :
                          Get(pivotedResults.rows[k], triple["column_name"].value)
                              = triple["entity_name"]

C8_Witness ==
    /\ stage = "pivoted"
    /\ \E i, j \in PlaceableAt(resolvedTriples.rows) :
          /\ i < j
          /\ resolvedTriples.rows[j]["s"] = resolvedTriples.rows[i]["s"]
          /\ resolvedTriples.rows[j]["column_name"] = resolvedTriples.rows[i]["column_name"]
          /\ resolvedTriples.rows[j]["entity_name"] # resolvedTriples.rows[i]["entity_name"]
          /\ \E k \in DOMAIN pivotedResults.rows :
                pivotedResults.rows[k][resolvedTriples.rows[j]["column_name"].value]
                    = resolvedTriples.rows[j]["entity_name"]

\* C9: a row whose subject or column name is missing or empty is in no
\* accumulator and creates no output row: the output has one row per distinct
\* subject of the placeable rows, and every field of it comes from one.
C9_SkipsMalformed ==
    stage = "pivoted" =>
        /\ Len(pivotedResults.rows) =
              Cardinality({resolvedTriples.rows[i]["s"] : i \in PlaceableAt(resolvedTriples.rows)})
        /\ \A k \in DOMAIN pivotedResults.rows :
              \A c \in DOMAIN pivotedResults.rows[k] \ {"s"} :
                  \E i \in PlaceableAt(resolvedTriples.rows) :
                      /\ resolvedTriples.rows[i]["s"] = pivotedResults.rows[k]["s"]
                      /\ resolvedTriples.rows[i]["column_name"] = Str(c)
                      /\ resolvedTriples.rows[i]["entity_name"] = pivotedResults.rows[k][c]

C9_Witness ==
    /\ stage = "pivoted"
    /\ Len(pivotedResults.rows) = 1
    /\ \E i, j \in DOMAIN resolvedTriples.rows :
          /\ ~Truthy(resolvedTriples.rows[i]["column_name"])
          /\ Truthy(resolvedTriples.rows[i]["s"])
          /\ ~Truthy(resolvedTriples.rows[j]["s"])
          /\ resolvedTriples.rows[i]["s"] # pivotedResults.rows[1]["s"]

\* C10: output rows are in first-seen-subject order, for every subject
\* identifier string, those that look like non-negative integers included.
C10_FirstSeenOrder ==
    stage = "pivoted" =>
        \A j, k \in DOMAIN pivotedResults.rows :
            j < k => FirstSeen(resolvedTriples.rows, pivotedResults.rows[j]["s"])
                        < FirstSeen(resolvedTriples.rows, pivotedResults.rows[k]["s"])

\* The subjects of the rows the pivot can place
PlacedSubjects == {resolvedTriples.rows[i]["s"] : i \in PlaceableAt(resolvedTriples.rows)}

\* C11 (as claimed): each pivoted row holds its subject identifier under the
\* key `subject`; the bindings (u1, name, Alice), (u1, age, 30) give the one
\* row {subject: "u1", name: "Alice", age: "30"}.
C11_SeededUnderSubject ==
    stage = "pivoted" =>
        /\ \A k \in DOMAIN pivotedResults.rows :
              /\ "subject" \in DOMAIN pivotedResults.rows[k]
              /\ pivotedResults.rows[k]["subject"] \in PlacedSubjects
        /\ response = EndToEndScenario =>
              pivotedResults.rows =
                  <<[subject |-> Str("u1"), name |-> Str("Alice"), age |-> Str("30")]>>

\* C11 (amended): each pivoted row holds its subject identifier under the
\* key `s`; the bindings (u1, name, Alice), (u1, age, 30) give the one row
\* {s: "u1", name: "Alice", age: "30"}.
C11_SeededUnderS ==
    stage = "pivoted" =>
        /\ \A k \in DOMAIN pivotedResults.rows :
              /\ "s" \in DOMAIN pivotedResults.rows[k]
              /\ pivotedResults.rows[k]["s"] \in PlacedSubjects
        /\ response = EndToEndScenario =>
              pivotedResults.rows =
                  <<[s |-> Str("u1"), name |-> Str("Alice"), age |-> Str("30")]>>

C11_Witness ==
    /\ stage = "pivoted"
    /\ response = EndToEndScenario
    /\ Len(pivotedResults.rows) = 1
    /\ pivotedResults.rows[1]["s"] = Str("u1")
    /\ userInput.data = pivotedResults

-----------------------------------------------------------------------------
(* Properties of resolveWikidataIrisInRawResults *)

\* The values of entity_name that are strings starting with a Wikidata prefix
MatchedIris ==
    {settled.value.rows[i]["entity_name"].value : i \in
        {j \in DOMAIN settled.value.rows :
            /\ settled.value.rows[j]["entity_name"].type = "string"
            /\ StartsWithWikidataPrefix(settled.value.rows[j]["entity_name"].value)}}

Enriched == stage \in {"resolved", "pivoted"}

\* The LabelMap the lookup of this run returned
LabelMap ==
    IF lookups = <<>> THEN <<>> ELSE fetchWikidataLabels(lookups[1], wikidataAnswer)

\* C13: when no entity_name matches, the empty RowSet included, the output
\* equals the input by value, the tag is unchanged and no lookup is made.
C13_NoMatchNoOp ==
    (Enriched /\ MatchedIris = {}) =>
        /\ resolvedTriples.rows = settled.value.rows
        /\ resolvedTriples.SparqlMarker = settled.value.SparqlMarker
        /\ lookups = <<>>

C13_Witness ==
    /\ Enriched /\ MatchedIris = {}
    /\ Len(settled.value.rows) = 2
    /\ settled.value.SparqlMarker
    /\ resolvedTriples = settled.value
    /\ lookups = <<>>

\* C14: when some entity_name matches, one lookup is made, and its batch
\* holds every matched identifier exactly once, however many rows hold it.
C14_OneDeduplicatedLookup ==
    (Enriched /\ MatchedIris # {}) =>
        /\ Len(lookups) = 1
        /\ Range(lookups[1]) = MatchedIris
        /\ Len(lookups[1]) = Cardinality(MatchedIris)

C14_Witness ==
    /\ Enriched
    /\ Len(lookups) = 1 /\ Len(lookups[1]) = 2
    /\ \E i, j \in DOMAIN settled.value.rows :
          /\ i # j
          /\ settled.value.rows[i]["entity_name"] = settled.value.rows[j]["entity_name"]
          /\ settled.value.rows[i]["entity_name"].value \in MatchedIris

\* C15: when the lookup fails entirely the enrichment returns its input by
\* value, every value a plain string, and handleDatasetSelect delivers the
\* pivoted rows with no error surfaced.
C15_LookupFailureDegrades ==
    (Enriched /\ lookups # <<>> /\ LookupFailed(wikidataAnswer)) =>
        /\ resolvedTriples = settled.value
        /\ stage = "pivoted" =>
              /\ userInput = CatalogueInput(pivotedResults, sparqlEndpoint)
              /\ Len(pivotedResults.rows) = Cardinality(PlacedSubjects)
              /\ \A k \in DOMAIN pivotedResults.rows :
                    \A c \in DOMAIN pivotedResults.rows[k] :
                        pivotedResults.rows[k][c].type = "string"
              /\ error = Null /\ loadingError = Null

C15_Witness ==
    /\ stage = "pivoted"
    /\ lookups # <<>> /\ wikidataAnswer = HttpText("<html>")
    /\ Len(userInput.data.rows) = 1
    /\ userInput.data.rows[1]["name"] = Str("http://www.wikidata.org/entity/Q1")

\* C16: the output has the length and order of the input; a row whose
\* entity_name matched and is a key of the LabelMap has it replaced by
\* {iri, label, __resolved_iri__: true}, its other fields as they were; every
\* other row is equal to its input row.
C16_EnrichedRowByRow ==
    Enriched =>
        /\ Len(resolvedTriples.rows) = Len(settled.value.rows)
        /\ \A i \in DOMAIN settled.value.rows :
              LET before == settled.value.rows[i]
                  after == resolvedTriples.rows[i]
                  iri == before["entity_name"].value
              IN  IF before["entity_name"] \in {Str(m) : m \in MatchedIris}
                         /\ iri \in DOMAIN LabelMap
                      THEN /\ DOMAIN after = DOMAIN before
                           /\ after["entity_name"] =
                                 [type |-> "object", iri |-> iri,
                                  label |-> LabelMap[iri], __resolved_iri__ |-> TRUE]
                           /\ \A k \in DOMAIN before \ {"entity_name"} :
                                 after[k] = before[k]
                      ELSE after = before

C16_Witness ==
    /\ Enriched
    /\ Len(resolvedTriples.rows) = 3
    /\ resolvedTriples.rows[1]["entity_name"] =
          [type |-> "object", iri |-> "http://www.wikidata.org/entity/Q1",
           label |-> "Universe", __resolved_iri__ |-> TRUE]
    /\ resolvedTriples.rows[2] = settled.value.rows[2]
    /\ resolvedTriples.rows[2]["entity_name"] = Str("https://www.wikidata.org/wiki/Q1")
    /\ resolvedTriples.rows[3]["entity_name"] = Str("x")

\* C17: the output of the enrichment carries the marker exactly when its
\* input does: empty input, no match, lookup answered, lookup failed.
C17_EnrichKeepsTag ==
    Enriched => resolvedTriples.SparqlMarker = settled.value.SparqlMarker

C17_Witness ==
    /\ Enriched
    /\ ~settled.value.SparqlMarker /\ ~resolvedTriples.SparqlMarker
    /\ \E i \in DOMAIN resolvedTriples.rows :
          resolvedTriples.rows[i]["entity_name"].type = "object"

-----------------------------------------------------------------------------
(* Order of the stages of handleDatasetSelect *)

\* The step applies the pivot / the enrichment / hands the result over
PivotStep == stage # "pivoted" /\ stage' = "pivoted"
EnrichStep == stage # "resolved" /\ stage' = "resolved"
DeliverStep == userInput' # userInput

\* C18 (as claimed): request, normalize, pivot, enrich, deliver: the pivot is
\* applied to the flat normalized rows, the enrichment afterwards to the
\* pivoted rows, and the enriched rows are delivered.
C18_PivotThenEnrich ==
    [][/\ PivotStep =>
            /\ stage = "normalized"
            /\ pivotedResults' = pivotTripleResults(settled.value, settled.value)
       /\ EnrichStep => stage = "pivoted"
       /\ DeliverStep => stage = "resolved"]_vars

\* C18 (amended): request, normalize, enrich, pivot, deliver: the enrichment
\* is applied to the flat normalized rows, the pivot afterwards to the rows
\* with resolved IRIs, and the pivoted rows are delivered in the same step.
C18_EnrichThenPivot ==
    [][/\ EnrichStep => stage = "normalized"
       /\ PivotStep =>
            /\ stage = "resolved"
            /\ pivotedResults' = pivotTripleResults(resolvedTriples, settled.value)
            /\ userInput' = CatalogueInput(pivotedResults', sparqlEndpoint)
       /\ DeliverStep => PivotStep]_vars

C18_Witness ==
    /\ stage = "pivoted"
    /\ userInput.data = pivotedResults
    /\ \E k \in DOMAIN userInput.data.rows :
          /\ "name" \in DOMAIN userInput.data.rows[k]
          /\ userInput.data.rows[k]["name"] =
                [type |-> "object", iri |-> "http://www.wikidata.org/entity/Q1",
                 label |-> "Universe", __resolved_iri__ |-> TRUE]

\* The entity ids to which the answer of the Wikidata API gives an English
\* label
LabelledIds(answer) ==
    IF answer.kind # "http" \/ LookupFailed(answer) THEN {}
    ELSE IF "entities" \notin DOMAIN answer.json THEN {}
    ELSE {answer.json.entities[i].id :
             i \in {j \in DOMAIN answer.json.entities :
                       answer.json.entities[j].label # ""}}

\* C33: when the lookup returns an English label for an entity id, every
\* identifier of the batch that ends in that id is a key of the LabelMap and
\* every row holding it is enriched, also when the batch holds several
\* identifiers of the same entity.
C33_EveryIdentifierEnriched ==
    (Enriched /\ lookups # <<>>) =>
        \A iri \in MatchedIris :
            AfterLastSlash(iri) \in LabelledIds(wikidataAnswer) =>
                /\ iri \in DOMAIN LabelMap
                /\ \A i \in DOMAIN settled.value.rows :
                      settled.value.rows[i]["entity_name"] = Str(iri) =>
                          resolvedTriples.rows[i]["entity_name"].type = "object"

\* C32: in every row produced by pivotTripleResults the key `s` holds the
\* subject identifier of the row's group (the property name under which the
\* reduce keeps the group), also when a triple's column name is `s`.
C32_SubjectKeyHoldsSubject ==
    stage = "pivoted" =>
        LET grouped == groupedBySubject(resolvedTriples.rows)
        IN  /\ pivotedResults.rows = ObjectValues(grouped)
            /\ \A i \in DOMAIN grouped.keys :
                  grouped.vals[i]["s"] = Str(grouped.keys[i])
            /\ \A k \in DOMAIN pivotedResults.rows :
                  pivotedResults.rows[k]["s"] \in PlacedSubjects

-----------------------------------------------------------------------------
(* The search session: CatalogueSearch.js:11-288, TerminologyService.js:24-157 *)

Components == {"CatalogueSearch", "TerminologyService"}

\* What the user can type into the search box; the last one closes the
\* string literal of the FILTER it is interpolated into.
SearchTerms == {"", " ", "a", "b\""}

Endpoints == {DefaultEndpoint, ""}

\* String.prototype.trim on the strings above
Trim(str) == IF str = " " THEN "" ELSE str

\* parser.parse(queryString) throws on the query built from this term
ParseFails(term) == term = "b\""

DebounceWait == 500   \* debounce(..., 500)
Quantum == 500        \* ms by which the clock of the model advances

Min(a, b) == IF a < b THEN a ELSE b

EmptyEndpointMessage == <<"SPARQL endpoint URL cannot be empty.">>
ParseErrorMessage == <<"Parse error on line 18">>
NothingFoundMessage ==
    IF component = "CatalogueSearch"
        THEN <<"No datasets found matching your query.">>
        ELSE <<"No terms found matching your query.">>

\* Responses to the search query
SearchResponses ==
    { HttpError("500", "boom"),
      HttpJson(JsonNull),
      HttpJson(WireResult(<<"title">>, <<>>)),
      HttpJson(WireResult(<<"title">>, <<[title |-> Term("x")]>>)) }

\* Responses to the predefined triple query of handleDatasetSelect
SelectResponses ==
    { HttpError("500", "boom"),
      HttpJson(WireResult(TripleVars, <<>>)),
      HttpJson(WireResult(TripleVars,
          <<[s |-> Term("u1"), column_name |-> Term("name"),
             entity_name |-> Term("http://www.wikidata.org/entity/Q1")]>>)) }

\* An invocation awaiting a response: the search term and the endpoint of its
\* request (handleDatasetSelect reads the endpoint again when it delivers).
\* `latest` tells that no executeSearch invocation has started since this one;
\* `alone` that no other invocation has been under way at any time since this
\* one started.
Run(kind, term, endpoint) ==
    [kind |-> kind, stage |-> "fetch", term |-> term, endpoint |-> endpoint,
     rawResults |-> NoRowSet, latest |-> kind = "search",
     alone |-> runs = EmptyBag]

InFlight == BagCardinality(runs)

Add(bag, run) == bag (+) SetToBag({run})
Remove(bag, run) == bag (-) SetToBag({run})

\* How many runs of the bag are in the set `some`
CountIn(bag, some) == BagCardinality([r \in some \cap DOMAIN bag |-> bag[r]])

\* Every run of the bag with `alone` reset: another invocation starts
Overlapped(bag) ==
    LET mark(r) == [r EXCEPT !.alone = FALSE]
    IN  [run \in {mark(r) : r \in DOMAIN bag} |->
            CountIn(bag, {q \in DOMAIN bag : mark(q) = run})]

\* Every run of the bag with `latest` (and `alone`) reset: another
\* invocation of executeSearch starts
Superseded(bag) ==
    LET mark(r) == [r EXCEPT !.latest = FALSE, !.alone = FALSE]
    IN  [run \in {mark(r) : r \in DOMAIN bag} |->
            CountIn(bag, {q \in DOMAIN bag : mark(q) = run})]

\* setSearchResults([]); setError(null); return
Cleared ==
    /\ searchResults' = NoRowSet
    /\ error' = Null
    /\ resultsFrom' = "latest"
    /\ runs' = Superseded(runs)
    /\ UNCHANGED <<isLoading, loadingError>>

\* Wrong: the request is sent whether or not the query parses.
Launch_SendsUnparsed(term, endpoint) ==
    /\ isLoading' = TRUE
    /\ error' = Null
    /\ loadingError' = Null
    /\ runs' = Add(Superseded(runs), Run("search", term, endpoint))
    /\ UNCHANGED <<searchResults, resultsFrom>>

\* executeSearch from setIsLoading(true) to the await of fetchData; a query
\* that does not parse is caught before anything is sent
Launch(term, endpoint) ==
    IF ParseFails(term)
        THEN /\ error' = ParseErrorMessage
             /\ loadingError' = ParseErrorMessage
             /\ searchResults' = NoRowSet
             /\ resultsFrom' = "latest"
             /\ isLoading' = FALSE
             /\ runs' = Superseded(runs)
        ELSE /\ isLoading' = TRUE
             /\ error' = Null
             /\ loadingError' = Null
             /\ runs' = Add(Superseded(runs), Run("search", term, endpoint))
             /\ UNCHANGED <<searchResults, resultsFrom>>

\* executeSearch(currentSearchTerm, currentEndpoint, isInitialCall), up to its
\* first await. Writes searchVars.
ExecuteSearch(currentSearchTerm, currentEndpoint, isInitialCall) ==
    IF component = "CatalogueSearch"
    THEN IF ~isInitialCall /\ Trim(currentSearchTerm) = ""
             THEN Cleared
         ELSE IF Trim(currentEndpoint) = ""
             THEN /\ error' = EmptyEndpointMessage
                  /\ searchResults' = NoRowSet
                  /\ resultsFrom' = "latest"
                  /\ runs' = Superseded(runs)
                  /\ UNCHANGED <<isLoading, loadingError>>
         ELSE Launch(currentSearchTerm, currentEndpoint)
    ELSE IF Trim(currentSearchTerm) = "" \/ Trim(currentEndpoint) = ""
             THEN Cleared
         ELSE Launch(currentSearchTerm, currentEndpoint)

\* Wrong: a call made while a timeout is pending does not replace the pending
\* arguments.
Debounced_KeepsPendingArgs(term, endpoint) ==
    /\ lastArgs' = IF timerId THEN lastArgs ELSE [term |-> term, endpoint |-> endpoint]
    /\ sinceLastCall' = 0
    /\ timerId' = TRUE
    /\ replaced' = (timerId /\ lastArgs.term # term)

\* debouncedSearch(term, endpoint): lodash debounce, trailing edge. The call
\* records its arguments and its time; a pending timeout is thereby put off
\* until `wait` ms after this call.
Debounced(term, endpoint) ==
    /\ lastArgs' = [term |-> term, endpoint |-> endpoint]
    /\ sinceLastCall' = 0
    /\ timerId' = TRUE
    /\ replaced' = (timerId /\ lastArgs.term # term)

\* The timeout expires `wait` ms after the last call: func is invoked with the
\* last arguments. Nothing cancels the timeout when the component unmounts.
DebounceFire ==
    /\ timerId
    /\ sinceLastCall >= DebounceWait
    /\ InFlight < MaxInFlight
    /\ timerId' = FALSE
    /\ lastArgs' = NoArgs
    /\ ExecuteSearch(lastArgs.term, lastArgs.endpoint, FALSE)
    /\ UNCHANGED <<sinceLastCall, replaced, sessionVars, userInput, dataVars, editorVars>>

\* Time passes while a timeout is pending
Tick ==
    /\ timerId
    /\ sinceLastCall < DebounceWait \/ sinceChange < DebounceWait
    /\ sinceLastCall' = Min(sinceLastCall + Quantum, DebounceWait)
    /\ sinceChange' = Min(sinceChange + Quantum, DebounceWait)
    /\ UNCHANGED <<component, phase, isMountedRef, searchTerm, sparqlEndpoint,
                   initialLoadDone, initialLoads, searchVars, timerId, lastArgs,
                   replaced, userInput, dataVars, editorVars>>

\* Wrong: the effect does not look at initialLoadDone.
InitialLoadEffect_IgnoresDone(endpoint) ==
    /\ isMountedRef' = TRUE
    /\ IF endpoint # ""
           THEN /\ ExecuteSearch("", endpoint, TRUE)
                /\ initialLoadDone' = TRUE
                /\ initialLoads' = initialLoads + 1
           ELSE UNCHANGED <<searchVars, initialLoadDone, initialLoads>>

\* The body of the effect of CatalogueSearch (lines 90-94)
InitialLoadEffect(endpoint) ==
    /\ isMountedRef' = TRUE
    /\ IF endpoint # "" /\ ~initialLoadDone
           THEN /\ ExecuteSearch("", endpoint, TRUE)
                /\ initialLoadDone' = TRUE
                /\ initialLoads' = initialLoads + 1
           ELSE UNCHANGED <<searchVars, initialLoadDone, initialLoads>>

\* The first commit: effects run
Mount ==
    /\ phase = "rendered"
    /\ phase' = "mounted"
    /\ IF component = "CatalogueSearch"
           THEN InitialLoadEffect(sparqlEndpoint)
           ELSE UNCHANGED <<isMountedRef, searchVars, initialLoadDone, initialLoads>>
    /\ UNCHANGED <<component, searchTerm, sparqlEndpoint, sinceChange,
                   debounceVars, userInput, dataVars, editorVars>>

\* The component is torn down: the cleanup of the effect runs
Unmount ==
    /\ phase = "mounted"
    /\ phase' = "unmounted"
    /\ isMountedRef' = IF component = "CatalogueSearch" THEN FALSE ELSE isMountedRef
    /\ UNCHANGED <<component, searchTerm, sparqlEndpoint, initialLoadDone,
                   initialLoads, sinceChange, searchVars, debounceVars, userInput,
                   dataVars, editorVars>>

\* Wrong: every change goes through the debounced function.
HandleSearchTermChange_AlwaysDebounced(newSearchTerm) ==
    /\ phase = "mounted"
    /\ Trim(sparqlEndpoint) # ""
    /\ newSearchTerm # searchTerm
    /\ searchTerm' = newSearchTerm
    /\ sinceChange' = 0
    /\ Debounced(newSearchTerm, sparqlEndpoint)
    /\ UNCHANGED searchVars
    /\ UNCHANGED <<component, phase, isMountedRef, sparqlEndpoint,
                   initialLoadDone, initialLoads, userInput, dataVars, editorVars>>

\* onChange of the search box (disabled while the endpoint is blank)
HandleSearchTermChange(newSearchTerm) ==
    /\ phase = "mounted"
    /\ Trim(sparqlEndpoint) # ""
    /\ newSearchTerm # searchTerm
    /\ searchTerm' = newSearchTerm
    /\ sinceChange' = 0
    /\ IF component = "CatalogueSearch" /\ Trim(newSearchTerm) = ""
           THEN /\ InFlight < MaxInFlight
                /\ ExecuteSearch("", sparqlEndpoint, TRUE)
                /\ UNCHANGED debounceVars
           ELSE /\ Debounced(newSearchTerm, sparqlEndpoint)
                /\ UNCHANGED searchVars
    /\ UNCHANGED <<component, phase, isMountedRef, sparqlEndpoint,
                   initialLoadDone, initialLoads, userInput, dataVars, editorVars>>

\* onChange of the endpoint input; in CatalogueSearch the effect, which
\* depends on sparqlEndpoint, is cleaned up and run again after the commit
HandleEndpointChange(newEndpoint) ==
    /\ phase = "mounted"
    /\ newEndpoint # sparqlEndpoint
    /\ initialLoadDone \/ InFlight < MaxInFlight
    /\ sparqlEndpoint' = newEndpoint
    /\ IF Trim(searchTerm) # ""
           THEN Debounced(searchTerm, newEndpoint)
           ELSE UNCHANGED debounceVars
    /\ IF component = "CatalogueSearch"
           THEN InitialLoadEffect(newEndpoint)
           ELSE UNCHANGED <<isMountedRef, searchVars, initialLoadDone, initialLoads>>
    /\ UNCHANGED <<component, phase, searchTerm, sinceChange, userInput, dataVars, editorVars>>

\* Wrong: a result without rows is reported to the host as an error.
SearchSettled_EmptyIsError(run, resp) ==
    /\ run.kind = "search"
    /\ LET results == fetchData(resp)
       IN  IF ~results.threw
               THEN /\ searchResults' = results.value
                    /\ error' = IF Len(results.value.rows) = 0
                                    THEN NothingFoundMessage ELSE error
                    /\ loadingError' = IF Len(results.value.rows) = 0
                                           THEN NothingFoundMessage ELSE loadingError
               ELSE /\ error' = results.message
                    /\ loadingError' = results.message
                    /\ searchResults' = NoRowSet
    /\ isLoading' = FALSE
    /\ resultsFrom' = IF run.latest THEN "latest" ELSE "superseded"
    /\ runs' = Remove(runs, run)
    /\ UNCHANGED <<sessionVars, debounceVars, userInput, dataVars, editorVars>>

\* executeSearch after `await fetchData(source)`: try / catch / finally
SearchSettled(run, resp) ==
    /\ run.kind = "search"
    /\ LET results == fetchData(resp)
       IN  IF ~results.threw
               THEN /\ searchResults' = results.value
                    /\ error' = IF Len(results.value.rows) = 0
                                    THEN NothingFoundMessage ELSE error
                    /\ UNCHANGED loadingError
               ELSE /\ error' = results.message
                    /\ loadingError' = results.message
                    /\ searchResults' = NoRowSet
    /\ isLoading' = FALSE
    /\ resultsFrom' = IF run.latest THEN "latest" ELSE "superseded"
    /\ runs' = Remove(runs, run)
    /\ UNCHANGED <<sessionVars, debounceVars, userInput, dataVars, editorVars>>

\* onClick of a result card (rendered while !isLoading and there are results):
\* handleDatasetSelect up to `await fetchData(source)`
HandleDatasetSelect ==
    /\ component = "CatalogueSearch"
    /\ phase = "mounted"
    /\ ~isLoading /\ Len(searchResults.rows) > 0
    /\ InFlight < MaxInFlight
    /\ loadingError' = Null
    /\ isLoading' = TRUE
    /\ error' = Null
    /\ runs' = Add(Overlapped(runs), Run("select", "", sparqlEndpoint))
    /\ UNCHANGED <<searchResults, resultsFrom, sessionVars,
                   debounceVars, userInput, dataVars, editorVars>>

\* Wrong: the metadata names the endpoint now in the input, not the one the
\* request was sent to.
Deliver_CurrentEndpoint(run, rawResults, resultsWithResolvedIris) ==
    /\ userInput' = CatalogueInput(pivotTripleResults(resultsWithResolvedIris, rawResults),
                                   sparqlEndpoint)
    /\ isLoading' = IF isMountedRef THEN FALSE ELSE isLoading
    /\ runs' = Remove(runs, run)
    /\ UNCHANGED <<error, loadingError>>

\* Wrong: handleDatasetSelect has no `finally` that turns the indicator off.
Deliver_LeavesLoading(run, rawResults, resultsWithResolvedIris) ==
    /\ userInput' = CatalogueInput(pivotTripleResults(resultsWithResolvedIris, rawResults),
                                   run.endpoint)
    /\ isLoading' = isLoading
    /\ runs' = Remove(runs, run)
    /\ UNCHANGED <<error, loadingError>>

\* handleDatasetSelect from the pivot to the end of `finally`
Deliver(run, rawResults, resultsWithResolvedIris) ==
    /\ userInput' = CatalogueInput(pivotTripleResults(resultsWithResolvedIris, rawResults),
                                   run.endpoint)
    /\ isLoading' = IF isMountedRef THEN FALSE ELSE isLoading
    /\ runs' = Remove(runs, run)
    /\ UNCHANGED <<error, loadingError>>

\* handleDatasetSelect after `await fetchData(source)`
SelectFetchSettled(run, resp) ==
    /\ run.kind = "select" /\ run.stage = "fetch"
    /\ LET rawResults == fetchData(resp)
       IN  IF rawResults.threw
               THEN /\ error' = IF isMountedRef THEN rawResults.message ELSE error
                    /\ loadingError' = IF isMountedRef THEN rawResults.message
                                                       ELSE loadingError
                    /\ isLoading' = IF isMountedRef THEN FALSE ELSE isLoading
                    /\ runs' = Remove(runs, run)
                    /\ UNCHANGED userInput
           ELSE IF Len(wikidataIrisToResolve(rawResults.value.rows)) = 0
               THEN Deliver(run, rawResults.value, rawResults.value)
           ELSE /\ runs' = Add(Remove(runs, run),
                               [run EXCEPT !.stage = "labels",
                                           !.rawResults = rawResults.value])
                /\ UNCHANGED <<userInput, isLoading, error, loadingError>>
    /\ UNCHANGED <<searchResults, resultsFrom, sessionVars,
                   debounceVars, dataVars, editorVars>>

\* handleDatasetSelect after `await fetchWikidataLabels(...)`
SelectLabelsSettled(run, answer) ==
    /\ run.kind = "select" /\ run.stage = "labels"
    /\ Deliver(run, run.rawResults,
               resolveWikidataIrisInRawResults(run.rawResults, answer))
    /\ UNCHANGED <<searchResults, resultsFrom, sessionVars,
                   debounceVars, dataVars, editorVars>>

Init ==
    /\ \E c \in Components : InitSession(c, DefaultEndpoint)
    /\ InitData({NetworkError})
    /\ InitEditor(DefaultEndpoint)

Next ==
    \/ Mount
    \/ Unmount
    \/ \E newSearchTerm \in SearchTerms : HandleSearchTermChange(newSearchTerm)
    \/ \E newEndpoint \in Endpoints : HandleEndpointChange(newEndpoint)
    \/ HandleDatasetSelect
    \/ Tick
    \/ DebounceFire
    \/ \E run \in BagToSet(runs), resp \in SearchResponses : SearchSettled(run, resp)
    \/ \E run \in BagToSet(runs), resp \in SelectResponses : SelectFetchSettled(run, resp)
    \/ \E run \in BagToSet(runs), answer \in WikidataAnswers : SelectLabelsSettled(run, answer)

Spec == Init /\ [][Next]_vars

-----------------------------------------------------------------------------
(* The query editor: SparqlFetch.js:139-235 *)

\* A SPARQL.js query object as the <sparql-editor> hands it over; queryType
\* is undefined on an update. `where` stands for the rest of the object.
Query(type, queryType, where) == [type |-> type, queryType |-> queryType, where |-> where]

SelectQueries == {Query("query", "SELECT", "?s ?p ?o"), Query("query", "SELECT", "?s a ?c")}

ParsedQueries ==
    SelectQueries \cup
    { Query("query", "CONSTRUCT", "?s ?p ?o"),
      Query("query", "ASK", "?s ?p ?o"),
      Query("update", "undefined", "?s ?p ?o") }

\* What the user can type into the endpoint input
Urls == {DefaultEndpoint, "", " "}

\* Answers of the endpoint to a submitted query
SubmitResponses ==
    { NetworkError,
      HttpError("500", "boom"),
      HttpJson(WireResult(<<"a">>, <<>>)),
      HttpJson(WireResult(<<"a">>, <<[a |-> Term("x")]>>)) }

SubmitErrorMessage == <<"It was not possible to execute the query on the given endpoint">>

\* const source = { type: 'sparql', url, query: parsedQuery }
Source(sourceUrl, query) == [type |-> "sparql", url |-> sourceUrl, query |-> query]

\* setUserInput(result, { type: 'sparql', url, query: parsedQuery })
SparqlInput(result, source) ==
    [type |-> "sparql", data |-> result, url |-> source.url, query |-> source.query]

\* onChange of the endpoint input
SetUrl(newUrl) ==
    /\ newUrl # url
    /\ url' = newUrl
    /\ UNCHANGED <<parsedQuery, submitted, ctlVars, dataVars>>

\* Wrong: every query that parses is stored, whatever its type.
onQueryParsed_AnyQueryType(query) ==
    /\ parsedQuery' = query
    /\ UNCHANGED <<url, submitted, ctlVars, dataVars>>

\* The editor's `parsed` event
onQueryParsed(query) ==
    /\ parsedQuery' = IF query.queryType = "SELECT" THEN query ELSE NullQuery
    /\ UNCHANGED <<url, submitted, ctlVars, dataVars>>

\* The editor's `parsing-failed` event
onParserFailure ==
    /\ parsedQuery' = NullQuery
    /\ UNCHANGED <<url, submitted, ctlVars, dataVars>>

\* disabled={!parsedQuery || !url}
SubmitDisabled == parsedQuery = NullQuery \/ url = ""

\* onClick of "Run query": onSubmit up to the call of fetchData
onSubmit ==
    /\ ~SubmitDisabled
    /\ BagCardinality(submitted) < MaxInFlight
    /\ submitted' = Add(submitted, Source(url, parsedQuery))
    /\ UNCHANGED <<url, parsedQuery, ctlVars, dataVars>>

\* The promise of fetchData(source) settles: .then / .catch of onSubmit
SubmitSettled(source, resp) ==
    /\ source \in DOMAIN submitted
    /\ LET result == fetchData(resp)
       IN  IF ~result.threw
               THEN /\ userInput' = SparqlInput(result.value, source)
                    /\ UNCHANGED loadingError
               ELSE /\ loadingError' = SubmitErrorMessage
                    /\ UNCHANGED userInput
    /\ submitted' = Remove(submitted, source)
    /\ UNCHANGED <<url, parsedQuery, sessionVars, debounceVars, searchResults,
                   isLoading, error, runs, resultsFrom, dataVars>>

SparqlFetchInit ==
    /\ InitSession("CatalogueSearch", DefaultEndpoint)
    /\ InitData({NetworkError})
    /\ \E initialUrl \in Urls : InitEditor(initialUrl)

SparqlFetchNext ==
    \/ \E newUrl \in Urls : SetUrl(newUrl)
    \/ \E query \in ParsedQueries : onQueryParsed(query)
    \/ onParserFailure
    \/ onSubmit
    \/ \E source \in BagToSet(submitted), resp \in SubmitResponses :
          SubmitSettled(source, resp)

SparqlFetchSpec == SparqlFetchInit /\ [][SparqlFetchNext]_vars

\* A response arrives: one of the awaits of a run is resumed
Settle ==
    \/ \E run \in DOMAIN runs, resp \in SearchResponses : SearchSettled(run, resp)
    \/ \E run \in DOMAIN runs, resp \in SelectResponses : SelectFetchSettled(run, resp)
    \/ \E run \in DOMAIN runs, answer \in WikidataAnswers : SelectLabelsSettled(run, answer)

\* The session of CatalogueSearch when every network request eventually
\* completes or fails
LiveInit ==
    /\ InitSession("CatalogueSearch", DefaultEndpoint)
    /\ InitData({NetworkError})
    /\ InitEditor(DefaultEndpoint)

\* The triggers of runs with the endpoint left as configured
LiveTerms == {"", "a"}

LiveNext ==
    \/ Mount
    \/ Unmount
    \/ \E newSearchTerm \in LiveTerms : HandleSearchTermChange(newSearchTerm)
    \/ HandleDatasetSelect
    \/ Tick
    \/ DebounceFire
    \/ Settle

LiveSpec == LiveInit /\ [][LiveNext]_vars /\ WF_vars(Settle)

-----------------------------------------------------------------------------
(* Properties of the search session *)

SearchRuns == {run \in BagToSet(runs) : run.kind = "search"}

\* The step is the expiry of the debounce timeout
Fires == timerId /\ ~timerId'

\* The step is the completion of a run
Completes == BagCardinality(runs') < BagCardinality(runs)

\* C1: once no search run is outstanding, the results shown were written by
\* the most recently started run; a superseded run's response never is what
\* is shown.
C1_OnlyLatestRunShown ==
    (component = "CatalogueSearch" /\ SearchRuns = {} /\ resultsFrom # "none")
        => resultsFrom = "latest"

\* C2: while the search term is non-empty, the debounced run starts only a
\* full quiet period after the last change of the term, and it is executed
\* with the term now in the search box, never with an earlier one.
C2_DebounceRunsLatestTerm ==
    [][(Fires /\ Trim(searchTerm) # "") =>
          /\ sinceChange >= DebounceWait
          /\ lastArgs.term = searchTerm
          /\ \A run \in BagToSet(runs') : run.latest => run.term = searchTerm]_vars

C2_Witness ==
    /\ ~timerId /\ replaced
    /\ searchTerm = "a"
    /\ sinceChange >= DebounceWait
    /\ \E run \in SearchRuns : run.latest /\ run.term = "a"

\* C3: after CatalogueSearch is torn down, the completion of a run changes
\* none of searchResults, error, isLoading, loadingError, userInput.
C3_NoUpdateAfterTeardown ==
    [][(component = "CatalogueSearch" /\ phase = "unmounted" /\ Completes) =>
          UNCHANGED <<searchResults, error, isLoading, loadingError, userInput>>]_vars

\* The step is the first commit of the component
Mounts == phase = "rendered" /\ phase' = "mounted"

\* C19: with an endpoint configured at the start, mounting CatalogueSearch
\* starts the initial-listing run (empty term, that endpoint) in the same
\* step, and no later step makes the effect start another one.
C19_InitialListingOnce ==
    [][component = "CatalogueSearch" =>
          /\ Mounts =>
                /\ initialLoads' = 1
                /\ isLoading'
                /\ \E run \in BagToSet(runs') :
                      /\ run.kind = "search" /\ run.latest
                      /\ run.term = "" /\ run.endpoint = sparqlEndpoint
          /\ ~Mounts => initialLoads' = initialLoads]_vars

C19_Witness ==
    /\ component = "CatalogueSearch" /\ phase = "mounted"
    /\ initialLoads = 1
    /\ sparqlEndpoint = "" /\ searchTerm = "a"
    /\ runs = EmptyBag /\ resultsFrom = "latest"
    /\ Len(searchResults.rows) > 0

\* The step changes the search term to an empty or whitespace-only value
TermCleared == searchTerm' # searchTerm /\ Trim(searchTerm') = ""

\* The step starts the initial-listing run with the current endpoint and
\* leaves the debounced function alone
StartsInitialListing ==
    /\ InFlight' = InFlight + 1
    /\ \E run \in BagToSet(runs') :
          /\ run.kind = "search" /\ run.latest /\ run.stage = "fetch"
          /\ run.term = "" /\ run.endpoint = sparqlEndpoint
    /\ isLoading'
    /\ UNCHANGED debounceVars

\* C20 (as claimed): a change of the search term to an empty value starts
\* the initial-listing run in the same event, in either component.
C20_EmptyTermBypassesDebounce ==
    [][TermCleared => StartsInitialListing]_vars

\* C20 (amended): in CatalogueSearch a change of the search term to an empty
\* value starts the initial-listing run in the same event; in
\* TerminologyService it is debounced like any other change and starts no run,
\* and the expiry of the timeout with an empty term clears the results.
C20_CatalogueBypassesDebounce ==
    [][/\ (TermCleared /\ component = "CatalogueSearch") => StartsInitialListing
       /\ (TermCleared /\ component = "TerminologyService") =>
             /\ timerId' /\ sinceLastCall' = 0
             /\ lastArgs' = [term |-> searchTerm', endpoint |-> sparqlEndpoint]
             /\ UNCHANGED searchVars
       /\ (Fires /\ component = "TerminologyService" /\ Trim(lastArgs.term) = "") =>
             /\ InFlight' = InFlight
             /\ searchResults' = NoRowSet /\ error' = Null]_vars

C20_Witness ==
    /\ component = "CatalogueSearch"
    /\ searchTerm = " " /\ sinceChange = 0
    /\ timerId /\ lastArgs.term = "a"
    /\ InFlight = 2
    /\ \E run \in SearchRuns : run.latest /\ run.term = "" /\ run.endpoint = sparqlEndpoint

\* The number of search runs awaiting their response
NumSearch(bag) ==
    BagCardinality([run \in {r \in DOMAIN bag : r.kind = "search"} |-> bag[run]])

\* The step starts a search run: executeSearch reaches `await fetchData`
StartsSearch == NumSearch(runs') > NumSearch(runs)

\* The step changes the endpoint
EndpointChanged == sparqlEndpoint' # sparqlEndpoint

\* C21: an endpoint change made while the search term is non-empty
\* (re)schedules the debounced run with the new endpoint and the current term,
\* and the run that the expiry of the timeout starts has the scheduled
\* arguments; an endpoint change made while the term is empty schedules and
\* starts nothing, and no search run starts until the user supplies a term
\* (the search box is disabled while the endpoint is blank, so a blank endpoint
\* with an empty term is a state in which the last edit was such a change).
C21_EndpointChangeReschedules ==
    [][/\ (EndpointChanged /\ Trim(searchTerm) # "") =>
             /\ timerId' /\ sinceLastCall' = 0
             /\ lastArgs' = [term |-> searchTerm, endpoint |-> sparqlEndpoint']
             /\ ~StartsSearch
       /\ (Fires /\ StartsSearch) =>
             \E run \in DOMAIN runs' :
                 /\ run.latest
                 /\ run.term = lastArgs.term /\ run.endpoint = lastArgs.endpoint
       /\ (EndpointChanged /\ Trim(searchTerm) = "") =>
             /\ UNCHANGED debounceVars
             /\ ~StartsSearch
       /\ (/\ Trim(sparqlEndpoint) = "" /\ Trim(searchTerm) = ""
           /\ UNCHANGED <<searchTerm, sparqlEndpoint>>) => ~StartsSearch]_vars

\* C29: in CatalogueSearch, once the search term has been changed to empty,
\* a debounced run that was pending for an earlier non-empty term never
\* executes: while the search box is empty, the expiry of the timeout starts
\* no search run.
C29_ClearedTermCancelsPending ==
    [][(component = "CatalogueSearch" /\ Fires /\ Trim(searchTerm) = "") =>
          ~StartsSearch]_vars

C23_ErrorsReachUserAndHost ==
    [][/\ (Fires /\ Trim(lastArgs.term) # "" /\ Trim(lastArgs.endpoint) = "") =>
             /\ ~StartsSearch
             /\ error' = EmptyEndpointMessage
             /\ loadingError' = EmptyEndpointMessage
       /\ (Fires /\ Trim(lastArgs.endpoint) # "" /\ ParseFails(lastArgs.term)) =>
             /\ ~StartsSearch
             /\ error' = ParseErrorMessage
             /\ loadingError' = ParseErrorMessage
       /\ \A run \in {r \in DOMAIN runs : Completes},
             resp \in {r \in SearchResponses : ~WellFormed(r)} :
             SearchSettled(run, resp) =>
                 /\ searchResults' = NoRowSet
                 /\ error' # Null /\ error' # NothingFoundMessage
                 /\ loadingError' = error'
       /\ \A run \in {r \in DOMAIN runs : Completes},
             resp \in {r \in SelectResponses : ~WellFormed(r)} :
             (SelectFetchSettled(run, resp) /\ isMountedRef) =>
                 /\ UNCHANGED userInput
                 /\ error' # Null
                 /\ loadingError' = error']_vars

\* C24: a search run whose endpoint is blank when it executes sends nothing
\* and shows the empty-endpoint error at once, in CatalogueSearch and in
\* TerminologyService.
C24_BlankEndpointError ==
    [][(Fires /\ Trim(lastArgs.term) # "" /\ Trim(lastArgs.endpoint) = "") =>
          /\ ~StartsSearch
          /\ error' = EmptyEndpointMessage]_vars

\* C25: when parser.parse throws on the query of a search run, the run goes
\* no further: no request is sent, no rows are delivered (searchResults is
\* emptied, userInput untouched) and the parser's message is what the user is
\* shown.
C25_ParseFailureStopsRun ==
    [][(Fires /\ Trim(lastArgs.endpoint) # "" /\ ParseFails(lastArgs.term)) =>
          /\ ~StartsSearch /\ InFlight' = InFlight
          /\ searchResults' = NoRowSet
          /\ UNCHANGED userInput
          /\ error' = ParseErrorMessage]_vars

C25_Witness ==
    /\ searchTerm = "b\"" /\ Trim(sparqlEndpoint) # ""
    /\ ~timerId /\ sinceChange >= DebounceWait
    /\ runs = EmptyBag /\ ~isLoading
    /\ searchResults = NoRowSet
    /\ error = ParseErrorMessage

\* C30: in CatalogueSearch the loading indicator is true in every state in
\* which a search run or a dataset-selection run awaits its response.
C30_LoadingWhileOutstanding ==
    (component = "CatalogueSearch" /\ runs # EmptyBag) => isLoading

\* The step starts a run: an invocation reaches its first await
Starts == InFlight' > InFlight

\* C28: a trigger that starts a run turns the loading indicator on, whatever
\* the session showed before; as long as runs are outstanding, runs keep
\* completing, so that once the triggers stop every run has reached its
\* outcome; and in a mounted session with no run outstanding the loading
\* indicator is off.
C28_LoadingEnds ==
    /\ [][Starts => isLoading']_vars
    /\ []<><<Completes>>_vars \/ <>[](runs = EmptyBag)
    /\ <>[][~Starts]_vars => <>[](runs = EmptyBag)
    /\ []((runs = EmptyBag /\ phase # "unmounted") => ~isLoading)

C28_Witness ==
    /\ phase = "mounted" /\ runs = EmptyBag /\ ~isLoading
    /\ searchTerm = "a" /\ resultsFrom = "latest"
    /\ error = <<"SPARQL query failed with status ", "500", ": ", "boom">>
    /\ userInput # NoUserInput

\* C31: in CatalogueSearch, whenever no run is outstanding, an error message
\* is not shown together with a non-empty result list: the session shows
\* nothing (Idle), rows without an error (Results), or no rows with the
\* 'nothing found' message (Empty) or with an error message (Failed).
C31_ErrorExcludesRows ==
    (component = "CatalogueSearch" /\ runs = EmptyBag) =>
        ~(error # Null /\ Len(searchResults.rows) > 0)

\* The selection whose request was `run` can deliver `data`: the pivot of
\* the enriched rows of its response
Delivers(run, data) ==
    IF run.stage = "labels"
        THEN \E answer \in WikidataAnswers :
                data = pivotTripleResults(
                           resolveWikidataIrisInRawResults(run.rawResults, answer),
                           run.rawResults)
        ELSE \E resp \in SelectResponses :
                LET rawResults == fetchData(resp)
                IN  /\ ~rawResults.threw
                    /\ Len(wikidataIrisToResolve(rawResults.value.rows)) = 0
                    /\ data = pivotTripleResults(rawResults.value, rawResults.value)

\* C34: userInput is written only by the step that ends a dataset selection,
\* hence at most once per selection, with the pivot of the enriched rows of
\* that selection's response and with the endpoint its request was sent to;
\* a selection whose request fails leaves userInput as it was.
C34_DeliveredOncePerSelection ==
    [][(userInput' # userInput) =>
          /\ InFlight' = InFlight - 1
          /\ \E run \in {r \in DOMAIN runs : r.kind = "select"} :
                /\ userInput'.endpoint = run.endpoint
                /\ userInput'.type = "sparql" /\ userInput'.fromCatalogueClick
                /\ Delivers(run, userInput'.data)
                /\ runs' = Remove(runs, run)
          /\ \A run \in DOMAIN runs, resp \in {r \in SelectResponses : fetchData(r).threw} :
                ~SelectFetchSettled(run, resp)]_vars

C34_Witness ==
    /\ component = "CatalogueSearch" /\ phase = "mounted"
    /\ userInput # NoUserInput
    /\ userInput.endpoint = DefaultEndpoint /\ sparqlEndpoint = ""
    /\ Len(userInput.data.rows) = 1
    /\ runs = EmptyBag /\ ~isLoading
    /\ Len(searchResults.rows) > 0
    /\ error = <<"SPARQL query failed with status ", "500", ": ", "boom">>

-----------------------------------------------------------------------------
(* Properties of the query editor *)

\* The step is the settling of a request made by onSubmit
SubmitCompletes == BagCardinality(submitted') < BagCardinality(submitted)

\* The response has a non-success status
NonSuccess(resp) == resp.kind = "http" /\ ~resp.ok

\* C26: when the endpoint answers with a non-success status, fetchData
\* throws an error whose message carries the status and the body text, no
\* rows are delivered to the host, and the error detail the caller surfaces
\* contains that body.
C26_NonSuccessSurfacesBody ==
    [][\A source \in {s \in DOMAIN submitted : SubmitCompletes},
          resp \in {r \in SubmitResponses : NonSuccess(r)} :
          SubmitSettled(source, resp) =>
              /\ fetchData(resp).threw
              /\ \E i, j \in DOMAIN fetchData(resp).message :
                    /\ fetchData(resp).message[i] = resp.status
                    /\ fetchData(resp).message[j] = resp.text
              /\ UNCHANGED userInput
              /\ \E i \in DOMAIN loadingError' : loadingError'[i] = resp.text]_vars

\* C27: the stored query is null or a SELECT query, so every request made by
\* a submit carries a SELECT query; a parsed query of another type and a
\* parse failure both leave the stored query null, whatever was stored before.
C27_OnlySelectSubmitted ==
    /\ [](/\ parsedQuery = NullQuery \/ parsedQuery.queryType = "SELECT"
          /\ \A source \in DOMAIN submitted : source.query.queryType = "SELECT")
    /\ [][/\ \A query \in ParsedQueries \ SelectQueries :
                onQueryParsed(query) => parsedQuery' = NullQuery
          /\ onParserFailure => parsedQuery' = NullQuery
          /\ (parsedQuery = NullQuery) => UNCHANGED submitted \/ SubmitCompletes]_vars

C27_Witness ==
    /\ parsedQuery = NullQuery
    /\ url = DefaultEndpoint
    /\ \E source \in DOMAIN submitted : source.query \in SelectQueries
    /\ userInput # NoUserInput /\ userInput.query \in SelectQueries


=============================================================================
